---- MODULE Spec2Model ----
(***************************************************************************)
(* Nifty-Dash (src/app.py): get_nifty_data, analyze_nifty_data and the     *)
(* update_data callback.  A DataFrame is a record: its DatetimeIndex       *)
(* (index, ascending dates) and one sequence of values per column.         *)
(* Returns are exact fractions [n, d]; d = 0 is NaN.                       *)
(***************************************************************************)
EXTENDS Integers, Sequences, FiniteSets, TLC

VARIABLES source, now, nifty_data, history, texts

vars == <<source, now, nifty_data, history, texts>>

\* ---------------------------------------------------------------- bounds
MaxYears == 5
MaxClose == 3
MaxMonth == 3
MaxPoints == 3
MaxMonthClose == 2

\* ------------------------------------------------------------- calendar
\* start_date = '2000-01-01'
FirstYear == 2000

None == <<>>
Some(x) == <<x>>

Date(y, m, d) == [y |-> y, m |-> m, d |-> d]

DateOrd(t) == (t.y * 12 + (t.m - 1)) * 32 + t.d

\* index.year, and the calendar year a 'Y' bin ends in
YearOf(t) == t.y

\* the calendar month an 'M' bin ends in, counted from year 0
MonthOf(t) == t.y * 12 + (t.m - 1)

\* the bin of resample('Y') or resample('M') a date falls in
Period(rule, t) == IF rule = "Y" THEN YearOf(t) ELSE MonthOf(t)

\* ------------------------------------------------------------ fractions
Abs(x) == IF x < 0 THEN -x ELSE x

RECURSIVE GCD(_, _)
GCD(a, b) == IF b = 0 THEN a ELSE GCD(b, a % b)

NaN == [n |-> 0, d |-> 0]

IsNaN(x) == x.d = 0

Frac(n, d) ==
  IF d = 0 THEN NaN
  ELSE LET g == GCD(Abs(n), Abs(d))
           s == IF d < 0 THEN -1 ELSE 1
       IN  [n |-> (s * n) \div g, d |-> (s * d) \div g]

FAdd(a, b) == Frac(a.n * b.d + b.n * a.d, a.d * b.d)

FGreater(a, b) == ~IsNaN(a) /\ ~IsNaN(b) /\ a.n * b.d > b.n * a.d

FLeqZero(a) == ~IsNaN(a) /\ a.n <= 0

Zero == Frac(0, 1)

\* ---------------------------------------------------- pandas operations
\* ffill: the value of the last point in a period at or before p
LastAtOrBefore(index, values, rule, p) ==
  LET I == {i \in 1..Len(index) : Period(rule, index[i]) <= p}
      k == CHOOSE i \in I : \A j \in I : j <= i
  IN  values[k]

\* A resample that keeps only the periods holding a point.
ResampleSkipEmpty(index, values, rule) ==
  LET ps == {Period(rule, index[i]) : i \in 1..Len(index)}
      nth(k) == CHOOSE p \in ps : Cardinality({q \in ps : q <= p}) = k
  IN  [k \in 1..Cardinality(ps) |->
         [p |-> nth(k),
          v |-> values[CHOOSE i \in 1..Len(index) :
                         /\ Period(rule, index[i]) = nth(k)
                         /\ \A j \in 1..Len(index) :
                              Period(rule, index[j]) = nth(k) => j <= i]]]

\* Series.resample(rule).ffill(): one entry per period from the first
\* point's period to the last point's, each the last value at or before the
\* period's end.
ResampleFfill(index, values, rule) ==
  IF Len(index) = 0 THEN <<>>
  ELSE LET lo == Period(rule, index[1])
           hi == Period(rule, index[Len(index)])
       IN  [k \in 1..(hi - lo + 1) |->
              [p |-> lo + k - 1,
               v |-> LastAtOrBefore(index, values, rule, lo + k - 1)]]

\* Series.pct_change(): NaN first, then v[i] / v[i-1] - 1.
PctChange(s) ==
  [i \in 1..Len(s) |->
     [p |-> s[i].p,
      v |-> IF i = 1 THEN NaN ELSE Frac(s[i].v - s[i-1].v, s[i-1].v)]]

NotNaN(e) == ~IsNaN(e.v)

\* The series with its NaN entries left in.
DropNothing(s) == s

\* Series.dropna()
DropNa(s) == SelectSeq(s, NotNaN)

RECURSIVE SumFrom(_, _)
SumFrom(s, i) == IF i > Len(s) THEN Zero ELSE FAdd(s[i].v, SumFrom(s, i + 1))

\* The sum, not divided by the count.
MeanUndivided(s) == IF Len(s) = 0 THEN NaN ELSE SumFrom(s, 1)

\* Series.mean(): NaN on an empty series.
Mean(s) ==
  IF Len(s) = 0 THEN NaN
  ELSE LET t == SumFrom(s, 1) IN Frac(t.n, t.d * Len(s))

\* DatetimeIndex.get_loc(Timestamp(year-12-31), method='nearest'), the
\* pandas 1.x call the code makes, on a year-end index: the position
\* nearest in time, the later one on a tie;
\* KeyError (0 here) on an empty index.  Positions are 1-based.
GetLocNearest(s, year) ==
  IF Len(s) = 0 THEN 0
  ELSE CHOOSE i \in 1..Len(s) :
         \A j \in 1..Len(s) :
           \/ Abs(s[i].p - year) < Abs(s[j].p - year)
           \/ Abs(s[i].p - year) = Abs(s[j].p - year) /\ j <= i

\* ------------------------------------------------------------ DataFrame
Frame(index, close) == [index |-> index, Close |-> close]

HasColumn(df, c) == c \in DOMAIN df

\* nifty_historical_data['Daily_Return'] = ...['Close'].pct_change()
DailyReturn(df) ==
  [i \in 1..Len(df.Close) |->
     IF i = 1 THEN NaN ELSE Frac(df.Close[i] - df.Close[i-1], df.Close[i-1])]

\* The new column, then the rows holding a NaN dropped in place.
SetDailyReturnDropNa(df) ==
  IF Len(df.index) = 0
  THEN [index |-> <<>>, Close |-> <<>>, Daily_Return |-> <<>>]
  ELSE [index |-> Tail(df.index), Close |-> Tail(df.Close),
        Daily_Return |-> Tail(DailyReturn(df))]

SetDailyReturn(df) ==
  [index |-> df.index, Close |-> df.Close, Daily_Return |-> DailyReturn(df)]

\* nifty_historical_data[nifty_historical_data.index.year == current_year]
RECURSIVE MaskYear(_, _, _, _)
MaskYear(seq, index, year, i) ==
  IF i > Len(index) THEN <<>>
  ELSE IF YearOf(index[i]) = year
       THEN <<seq[i]>> \o MaskYear(seq, index, year, i + 1)
       ELSE MaskYear(seq, index, year, i + 1)

CurrentYearData(df, current_year) ==
  Frame(MaskYear(df.index, df.index, current_year, 1),
        MaskYear(df.Close, df.index, current_year, 1))

\* ------------------------------------------------- analyze_nifty_data
\* ['Close'].resample('Y').ffill().pct_change() then .dropna()
YearlyReturns(df) == DropNa(PctChange(ResampleFfill(df.index, df.Close, "Y")))

\* Monthly returns over the whole history, cut to the current year after.
MonthlyReturnsThenCut(df, current_year) ==
  LET all == DropNa(PctChange(ResampleFfill(df.index, df.Close, "M")))
      inYear(e) == e.p \div 12 = current_year
  IN  SelectSeq(all, inYear)

\* current_year_data['Close'].resample('M').ffill().pct_change() then .dropna()
MonthlyReturnsCurrentYear(df, current_year) ==
  LET cur == CurrentYearData(df, current_year)
  IN  DropNa(PctChange(ResampleFfill(cur.index, cur.Close, "M")))

\* yearly_returns < 0
NegativeOnly(yr) == [i \in 1..Len(yr) |-> ~IsNaN(yr[i].v) /\ yr[i].v.n < 0]

\* negative_or_zero_returns = yearly_returns <= 0
NegativeOrZero(yr) == [i \in 1..Len(yr) |-> FLeqZero(yr[i].v)]

\* The scan loop, one iteration: st holds start_year, None (<<>>) or <<year>>,
\* and consecutive_periods.  Reading index[i-1] at the first entry wraps to
\* the last entry, as Python's negative index does.
ScanStep(yr, st, i) ==
  IF NegativeOrZero(yr)[i]
  THEN IF st.start_year = None
       THEN [st EXCEPT !.start_year = Some(yr[i].p)]
       ELSE st
  ELSE IF st.start_year # None
       THEN [st EXCEPT
               !.consecutive_periods =
                  Append(@, <<st.start_year[1],
                              yr[IF i = 1 THEN Len(yr) ELSE i - 1].p>>),
               !.start_year = None]
       ELSE st

RECURSIVE ScanLoop(_, _, _)
ScanLoop(yr, st, i) ==
  IF i > Len(yr) THEN st ELSE ScanLoop(yr, ScanStep(yr, st, i), i + 1)

\* lines 51-63: the loop, then the close of a run that reaches the last entry
ConsecutivePeriods(yr) ==
  LET st == ScanLoop(yr, [start_year |-> None, consecutive_periods |-> <<>>], 1)
  IN  IF st.start_year # None
      THEN Append(st.consecutive_periods, <<st.start_year[1], yr[Len(yr)].p>>)
      ELSE st.consecutive_periods

\* The next year held against 0, not against the mean.
CountStepAgainstZero(yr, mean, c, period) ==
  LET end_year == period[2]
      end_year_index == GetLocNearest(yr, end_year)
  IN  IF end_year_index = 0 THEN c
      ELSE IF end_year_index <= Len(yr) /\ yr[end_year_index].p = end_year
      THEN LET one == /\ end_year_index + 1 <= Len(yr)
                      /\ FGreater(yr[end_year_index + 1].v, Zero)
               two == /\ end_year_index + 2 <= Len(yr)
                      /\ FGreater(yr[end_year_index + 1].v, mean)
                      /\ FGreater(yr[end_year_index + 2].v, mean)
           IN  <<c[1] + (IF one THEN 1 ELSE 0), c[2] + (IF two THEN 1 ELSE 0)>>
      ELSE c

\* lines 70-91, one slump: c is <<count_next_year, count_next_two_years>>
CountStep(yr, mean, c, period) ==
  LET end_year == period[2]
      end_year_index == GetLocNearest(yr, end_year)
  IN  IF end_year_index = 0 THEN c
      ELSE IF end_year_index <= Len(yr) /\ yr[end_year_index].p = end_year
      THEN LET one == /\ end_year_index + 1 <= Len(yr)
                      /\ FGreater(yr[end_year_index + 1].v, mean)
               two == /\ end_year_index + 2 <= Len(yr)
                      /\ FGreater(yr[end_year_index + 1].v, mean)
                      /\ FGreater(yr[end_year_index + 2].v, mean)
           IN  <<c[1] + (IF one THEN 1 ELSE 0), c[2] + (IF two THEN 1 ELSE 0)>>
      ELSE c

RECURSIVE CountLoop(_, _, _, _, _)
CountLoop(yr, mean, periods, c, k) ==
  IF k > Len(periods) THEN c
  ELSE CountLoop(yr, mean, periods, CountStep(yr, mean, c, periods[k]), k + 1)

\* Python's true division: ZeroDivisionError on a zero divisor.
PyDiv(a, b) ==
  IF b = 0 THEN [raised |-> TRUE, v |-> NaN]
  ELSE [raised |-> FALSE, v |-> Frac(a, b)]

\* count / total, whatever total is
ProbabilityUnguarded(count, total) == PyDiv(count, total)

\* count / total if total > 0 else 0
Probability(count, total) ==
  IF total > 0 THEN PyDiv(count, total) ELSE [raised |-> FALSE, v |-> Zero]

\* The five values returned, the slump list the scan built, whether the call
\* raised instead of returning, the year read from the clock, and the frame
\* as the call leaves it.
Analyze(df, current_year) ==
  LET yearly_returns == YearlyReturns(df)
      mean_yearly_return == Mean(yearly_returns)
      consecutive_periods == ConsecutivePeriods(yearly_returns)
      c == CountLoop(yearly_returns, mean_yearly_return,
                     consecutive_periods, <<0, 0>>, 1)
      total == Len(consecutive_periods)
      p1 == Probability(c[1], total)
      p2 == Probability(c[2], total)
  IN  [yearly_returns |-> yearly_returns,
       monthly_returns_current_year |->
          MonthlyReturnsCurrentYear(df, current_year),
       probability_next_year_exceeds |-> p1.v,
       probability_next_two_years_exceeds |-> p2.v,
       mean_yearly_return |-> mean_yearly_return,
       consecutive_periods |-> consecutive_periods,
       raised |-> p1.raised \/ p2.raised,
       current_year |-> current_year,
       frame |-> SetDailyReturn(df)]

\* A call as history keeps it: all of the above but the frame.
CallRecord(r) ==
  [yearly_returns |-> r.yearly_returns,
   monthly_returns_current_year |-> r.monthly_returns_current_year,
   probability_next_year_exceeds |-> r.probability_next_year_exceeds,
   probability_next_two_years_exceeds |-> r.probability_next_two_years_exceeds,
   mean_yearly_return |-> r.mean_yearly_return,
   consecutive_periods |-> r.consecutive_periods,
   raised |-> r.raised,
   current_year |-> r.current_year]

\* What the caller of analyze_nifty_data gets back.
Returned(r) ==
  [yearly_returns |-> r.yearly_returns,
   monthly_returns_current_year |-> r.monthly_returns_current_year,
   probability_next_year_exceeds |-> r.probability_next_year_exceeds,
   probability_next_two_years_exceeds |-> r.probability_next_two_years_exceeds,
   mean_yearly_return |-> r.mean_yearly_return]

\* ------------------------------------------------------- get_nifty_data
IsDatetimeIndexed(df) == "index" \in DOMAIN df

process_data(df) ==
  IF IsDatetimeIndexed(df) THEN df
  ELSE [index |-> df.Date, Close |-> df.Close]

\* yf.download(ticker, start, end): a new frame of the remote history
YfDownload(remote) == Frame(remote.index, remote.Close)

\* ---------------------------------------------------------- update_data
\* f"{x:.2f}": "nan", or a sign and the nearest hundredth.  A value midway
\* between two hundredths prints as either one: the double that holds it
\* lies on one side or is rounded to even.
Format2f(x) ==
  IF IsNaN(x) THEN {[nan |-> TRUE, neg |-> FALSE, hundredths |-> 0]}
  ELSE LET a == Abs(x.n) * 100
           q == a \div x.d
           r == a % x.d
           hs == IF 2 * r < x.d THEN {q}
                 ELSE IF 2 * r > x.d THEN {q + 1}
                 ELSE {q, q + 1}
       IN  {[nan |-> FALSE, neg |-> x.n < 0, hundredths |-> h] : h \in hs}

\* ------------------------------------------------------------ the inputs
RECURSIVE SortDates(_)
SortDates(S) ==
  IF S = {} THEN <<>>
  ELSE LET t == CHOOSE x \in S : \A y \in S : DateOrd(x) <= DateOrd(y)
       IN  <<t>> \o SortDates(S \ {t})

PriceSeries(S, f) ==
  LET index == SortDates(S)
  IN  Frame(index, [i \in 1..Len(index) |-> f[index[i]]])

AllSeries(Dates, Closes, maxPoints) ==
  UNION {{PriceSeries(S, f) : f \in [S -> Closes]} :
           S \in {T \in SUBSET Dates : Cardinality(T) <= maxPoints}}

\* at most one trading day in each of MaxYears years
YearlyDates == {Date(FirstYear + k, 6, 15) : k \in 0..(MaxYears - 1)}

\* the last trading day of one year, then two trading days in each of the
\* first MaxMonth months of the next
MonthlyDates ==
  {Date(FirstYear, 12, 29)} \cup
  {Date(FirstYear + 1, m, d) : m \in 1..MaxMonth, d \in {10, 20}}

\* closes [100,90,95,80,120,130] at the ends of 2018..2023
ScenarioCloses == <<100, 90, 95, 80, 120, 130>>

Scenario ==
  Frame([k \in 1..6 |-> Date(2017 + k, 12, 31)], ScenarioCloses)

Remotes ==
  AllSeries(YearlyDates, 1..MaxClose, MaxYears) \cup
  AllSeries(MonthlyDates, 1..MaxMonthClose, MaxPoints) \cup
  {Scenario}

\* pd.Timestamp('now').year: the year of the last point, or the one after
NowYears(remote) ==
  IF Len(remote.index) = 0 THEN {FirstYear + 1}
  ELSE LET y == YearOf(remote.index[Len(remote.index)]) IN {y, y + 1}

\* ------------------------------------------------------------ the system
Init ==
  /\ source \in Remotes
  /\ now \in NowYears(source)
  /\ nifty_data = None
  /\ history = <<>>
  /\ texts = None

\* the results of the last two calls on the frame now held
Push(h, r) == IF Len(h) < 2 THEN Append(h, r) ELSE <<h[2], r>>

get_nifty_data ==
  /\ nifty_data' = Some(process_data(YfDownload(source)))
  /\ history' = <<>>
  /\ UNCHANGED <<source, now, texts>>

analyze_nifty_data ==
  /\ nifty_data # None
  /\ \E r \in {Analyze(nifty_data[1], now)} :
         /\ nifty_data' = Some(r.frame)
         /\ history' = Push(history, CallRecord(r))
  /\ UNCHANGED <<source, now, texts>>

update_data ==
  \E r \in {Analyze(process_data(YfDownload(source)), now)} :
      /\ nifty_data' = Some(r.frame)
      /\ history' = <<CallRecord(r)>>
      /\ IF r.raised THEN texts' = texts
         ELSE \E p1 \in Format2f(r.probability_next_year_exceeds),
                 p2 \in Format2f(r.probability_next_two_years_exceeds),
                 m \in Format2f(r.mean_yearly_return) :
                texts' = Some([next_year_prob_text |-> p1,
                               next_two_years_prob_text |-> p2,
                               average_yearly_return_text |-> m])
      /\ UNCHANGED <<source, now>>

Next == get_nifty_data \/ analyze_nifty_data \/ update_data

Spec == Init /\ [][Next]_vars

\* ---------------------------------------------------------------- claims
Called == Len(history) > 0

Result == history[Len(history)]

YearsOfSource == {source.index[i].y : i \in 1..Len(source.index)}

\* fewer than 2 yearly periods: no point, or all points in one calendar year
OneYearlyPeriodAtMost == Cardinality(YearsOfSource) <= 1

NonPositiveYears(yr) == {yr[j].p : j \in {i \in 1..Len(yr) : yr[i].v.n <= 0}}

SlumpYears(S) == UNION {S[i][1]..S[i][2] : i \in 1..Len(S)}

\* a > b for fractions with positive denominators
Exceeds(a, b) == a.d > 0 /\ b.d > 0 /\ a.n * b.d > b.n * a.d

\* C1: the slump list is made of pairs with start <= end, in ascending order,
\* never overlapping nor adjacent, and the years they cover are exactly the
\* years of the Yearly Return Series whose return is <= 0.
C1_SlumpsCoverNonPositiveYears ==
  Called =>
    LET S == Result.consecutive_periods
        yr == Result.yearly_returns
    IN  /\ \A i \in 1..Len(S) : S[i][1] <= S[i][2]
        /\ \A i, j \in 1..Len(S) : i < j => S[i][2] + 1 < S[j][1]
        /\ SlumpYears(S) = NonPositiveYears(yr)

\* two slumps, one of them a year of return exactly 0 that ends the series
C1_Witness ==
  /\ Called
  /\ Len(Result.consecutive_periods) = 2
  /\ LET yr == Result.yearly_returns
     IN  yr[Len(yr)].v = Zero /\ Result.consecutive_periods[2][2] = yr[Len(yr)].p

\* C2: both probabilities are numbers in [0,1] and the two-year one is at
\* most the one-year one.
C2_ProbabilitiesOrdered ==
  Called =>
    LET p1 == Result.probability_next_year_exceeds
        p2 == Result.probability_next_two_years_exceeds
    IN  /\ ~Result.raised
        /\ p1.d > 0 /\ p2.d > 0
        /\ 0 <= p2.n /\ p1.n <= p1.d
        /\ p2.n * p1.d <= p1.n * p2.d

\* a slump followed by a year above the mean and then one not above it
C2_Witness ==
  /\ Called
  /\ Len(Result.consecutive_periods) = 1
  /\ Result.probability_next_year_exceeds = Frac(1, 1)
  /\ Result.probability_next_two_years_exceeds = Zero
  /\ LET yr == Result.yearly_returns
     IN  Result.consecutive_periods[1][2] + 2 = yr[Len(yr)].p

\* position in yr of the entry of a year
EntryOf(yr, year) == CHOOSE j \in 1..Len(yr) : yr[j].p = year

NextExceeds(yr, mean, slump) ==
  LET j == EntryOf(yr, slump[2])
  IN  j + 1 <= Len(yr) /\ Exceeds(yr[j + 1].v, mean)

NextTwoExceed(yr, mean, slump) ==
  LET j == EntryOf(yr, slump[2])
  IN  /\ j + 2 <= Len(yr)
      /\ Exceeds(yr[j + 1].v, mean)
      /\ Exceeds(yr[j + 2].v, mean)

\* C3: each probability is its count of slumps (followed by one entry above
\* the mean; by two entries above the mean) over the count of all slumps, 0
\* with no slump; a slump with no entry, or one entry, after it stays in the
\* denominator.
C3_DenominatorIsAllSlumps ==
  Called =>
    LET S == Result.consecutive_periods
        yr == Result.yearly_returns
        m == Result.mean_yearly_return
        n1 == Cardinality({i \in 1..Len(S) : NextExceeds(yr, m, S[i])})
        n2 == Cardinality({i \in 1..Len(S) : NextTwoExceed(yr, m, S[i])})
        p1 == Result.probability_next_year_exceeds
        p2 == Result.probability_next_two_years_exceeds
    IN  IF Len(S) = 0 THEN p1 = Zero /\ p2 = Zero
        ELSE /\ p1.d > 0 /\ p1.n * Len(S) = n1 * p1.d
             /\ p2.d > 0 /\ p2.n * Len(S) = n2 * p2.d

\* two slumps, the second ending the series: one of two counted
C3_Witness ==
  /\ Called
  /\ LET S == Result.consecutive_periods
         yr == Result.yearly_returns
     IN  /\ Len(S) = 2
         /\ S[2][2] = yr[Len(yr)].p
         /\ Result.probability_next_year_exceeds = Frac(1, 2)

Min(S) == CHOOSE x \in S : \A y \in S : x <= y

Max(S) == CHOOSE x \in S : \A y \in S : y <= x

\* calendar months (1..12) holding a point dated in the current year
MonthsOfNow == {source.index[i].m : i \in {j \in 1..Len(source.index) : source.index[j].y = now}}

MonthlySpan == IF MonthsOfNow = {} THEN 0 ELSE Max(MonthsOfNow) - Min(MonthsOfNow)

\* C4 as stated: with no point, or all points in one calendar year, the call
\* returns without raising, both series empty and both probabilities 0.
C4_ShortInputAllEmpty ==
  (Called /\ OneYearlyPeriodAtMost) =>
    /\ ~Result.raised
    /\ Result.yearly_returns = <<>>
    /\ Result.monthly_returns_current_year = <<>>
    /\ Result.probability_next_year_exceeds = Zero
    /\ Result.probability_next_two_years_exceeds = Zero

\* C4 amended: with no point, or all points in one calendar year, the call
\* returns without raising, the yearly series empty and both probabilities
\* 0; the current-year monthly series has one entry per month after the
\* first month with a current-year point, up to the last, so it is empty
\* only when those points lie in fewer than 2 months.
C4_ShortInputYearlyEmpty ==
  (Called /\ OneYearlyPeriodAtMost) =>
    /\ ~Result.raised
    /\ Result.yearly_returns = <<>>
    /\ Len(Result.monthly_returns_current_year) = MonthlySpan
    /\ Result.probability_next_year_exceeds = Zero
    /\ Result.probability_next_two_years_exceeds = Zero

\* points of one calendar year only, in several months of the current year
C4_Witness ==
  /\ Called
  /\ OneYearlyPeriodAtMost
  /\ Len(source.index) >= 2
  /\ Len(Result.monthly_returns_current_year) >= 1

\* C5: the mean returned is the arithmetic mean of the yearly returns, the
\* number 0 when there are none, and neither the call nor the formatting of
\* the mean raises or yields a not-a-number.
C5_MeanZeroWhenEmpty ==
  Called =>
    LET yr == Result.yearly_returns
        m == Result.mean_yearly_return
        t == SumFrom(yr, 1)
    IN  /\ ~Result.raised
        /\ Len(yr) = 0 => m = Zero
        /\ Len(yr) > 0 => m.d > 0 /\ m.n * t.d * Len(yr) = t.n * m.d
        /\ texts # None => ~texts[1].average_yearly_return_text.nan

\* C6 as stated: with points in at least 2 calendar years, the yearly series
\* has (number of distinct calendar years holding a point) - 1 entries.
C6_LengthIsDistinctYearsLessOne ==
  (Called /\ Cardinality(YearsOfSource) >= 2) =>
    Len(Result.yearly_returns) = Cardinality(YearsOfSource) - 1

GapYears == {y \in Min(YearsOfSource)..Max(YearsOfSource) : y \notin YearsOfSource}

\* C6 amended: with points in at least 2 calendar years, the yearly series
\* has (year of the last point) - (year of the first point) entries, one per
\* calendar year after the first; a year in between holding no point has an
\* entry of return 0.
C6_LengthIsYearSpan ==
  (Called /\ Cardinality(YearsOfSource) >= 2) =>
    LET yr == Result.yearly_returns
    IN  /\ Len(yr) = Max(YearsOfSource) - Min(YearsOfSource)
        /\ \A k \in 1..Len(yr) : yr[k].p = Min(YearsOfSource) + k
        /\ \A g \in GapYears : yr[g - Min(YearsOfSource)].v = Zero

\* a calendar year between the first and the last point holds no point
C6_Witness ==
  /\ Called
  /\ Cardinality(YearsOfSource) >= 2
  /\ GapYears # {}

\* C7: after a call the frame passed in holds the points and the columns it
\* held when it was downloaded.
C7_InputUnchanged ==
  Called => nifty_data = Some(Frame(source.index, source.Close))

\* C8: two calls in a row on the same frame, at the same current date,
\* return the same five values (or both raise).
C8_SecondCallSameOutputs ==
  Len(history) = 2 =>
    /\ Returned(history[1]) = Returned(history[2])
    /\ history[1].raised = history[2].raised

\* a second call on a frame the first call has written Daily_Return into
C8_Witness ==
  /\ Len(history) = 2
  /\ HasColumn(nifty_data[1], "Daily_Return")
  /\ Len(Result.yearly_returns) >= 2
  /\ Len(Result.consecutive_periods) >= 1

\* C9: closes [100,90,95,80,120,130] for 2018..2023 give five yearly
\* returns, the one-year slumps 2019 and 2021, 2020 not above the mean, 2022
\* and 2023 above it, and both probabilities 1/2.
C9_Scenario ==
  (Called /\ source = Scenario) =>
    LET yr == Result.yearly_returns
        m == Result.mean_yearly_return
    IN  /\ Len(yr) = 5
        /\ Result.consecutive_periods = <<(<<2019, 2019>>), (<<2021, 2021>>)>>
        /\ ~Exceeds(yr[2].v, m)
        /\ Exceeds(yr[4].v, m) /\ Exceeds(yr[5].v, m)
        /\ Result.probability_next_year_exceeds = [n |-> 1, d |-> 2]
        /\ Result.probability_next_two_years_exceeds = [n |-> 1, d |-> 2]

C9_Witness == Called /\ source = Scenario /\ ~Result.raised

\* rows of the history dated in the current year, and all rows
RowsOfNow == {i \in 1..Len(source.index) : source.index[i].y = now}

AllRows == 1..Len(source.index)

\* the last close, among rows, at or before the end of month M
CloseBy(rows, M) ==
  source.Close[Max({i \in rows : MonthOf(source.index[i]) <= M})]

\* s is the monthly Return Series over rows, cut to the current year: one
\* entry per month of the current year after the first month of rows up to
\* their last, each CloseBy(M) / CloseBy(M - 1) - 1.
IsMonthlyOver(s, rows) ==
  IF rows = {} THEN s = <<>>
  ELSE LET ms == {MonthOf(source.index[i]) : i \in rows}
           a == Max({Min(ms) + 1, now * 12})
           b == Min({Max(ms), now * 12 + 11})
       IN  /\ Len(s) = (IF a > b THEN 0 ELSE b - a + 1)
           /\ \A k \in 1..Len(s) :
                LET cur == CloseBy(rows, a + k - 1)
                    prev == CloseBy(rows, a + k - 2)
                IN  /\ s[k].p = a + k - 1
                    /\ s[k].v.d > 0
                    /\ s[k].v.n * prev = (cur - prev) * s[k].v.d

\* C10 as stated: the current-year monthly series is the monthly Return
\* Series of the whole price history, cut to the entries of the current
\* year (January held against the December before it).
C10_MonthlyOverHistory ==
  Called => IsMonthlyOver(Result.monthly_returns_current_year, AllRows)

\* C10 amended: the current-year monthly series is the monthly Return Series
\* of the points dated in the current year alone: one entry per month after
\* the first month holding such a point up to the month of the last, each
\* against the last current-year close at or before the previous month's
\* end; the first such month (January included) has no entry.
C10_MonthlyOverCurrentYear ==
  Called => IsMonthlyOver(Result.monthly_returns_current_year, RowsOfNow)

\* a December close, then closes in January and a later month of the
\* current year
C10_Witness ==
  /\ Called
  /\ \E i \in AllRows : source.index[i].y = now - 1
  /\ \E i \in RowsOfNow : source.index[i].m = 1
  /\ Len(Result.monthly_returns_current_year) >= 1

====
